---- MODULE Spec2Model ----
(***************************************************************************)
(* A model of scripts/compare_negatives.py: one run of main() over a       *)
(* baseline file (--current), a new-snapshot file (--new) and a report     *)
(* path (--report).                                                        *)
(*                                                                         *)
(* Modelling decisions:                                                    *)
(*  - a file is absent, present but unreadable or unparsable ("bad"), or   *)
(*    present with a JSON list of review rows ("ok"); the bytes of an "ok" *)
(*    file are identified with its row sequence (one serialisation per     *)
(*    sequence), so two files have equal bytes iff equal row sequences.    *)
(*    JSON of another shape that makes neg_counts raise (a list of         *)
(*    numbers, say) ends the run in lines 107-108 as a "bad" file does in  *)
(*    lines 101-102, before anything is written, and is not told apart;    *)
(*  - a missing key of a row is the empty string; a "review" value that is *)
(*    a truthy JSON non-string (a number, say) is the marker NonStr;       *)
(*  - rel is the rational delta/a kept as a pair <<num, den>>, and         *)
(*    threshold_rel is a whole number of percent. Python compares the      *)
(*    correctly rounded doubles, and rounding is monotone, so the          *)
(*    comparison is modelled on the exact values;                          *)
(*  - the report is a sequence of chunks, one per f.write group; opening   *)
(*    and writing the report path and the GITHUB_OUTPUT file succeed;      *)
(*  - the 200-character truncation of review text is not modelled.         *)
(***************************************************************************)
EXTENDS Integers, Sequences, FiniteSets, TLC

\* ---------------------------------------------------------------- bounds
\* Longest snapshot file, in rows.
MaxRows == 2
\* The small cap tried for max_rows besides the default.
SmallCap == 1
\* Largest count and threshold of the grid the threshold rule is compared on.
GridMax == 5

\* ------------------------------------------------------ program constants
\* append_details_table(..., max_rows=300)
max_rows_default == 300
\* examples(rows, category, max_n=5); main passes 5
max_n == 5

NonStr == "#non-string#"

SENTI_MAP ==
  [s \in {"negative", "NEGATIVE", "LABEL_0", "neutral", "NEUTRAL", "LABEL_1",
          "positive", "POSITIVE", "LABEL_2"} |->
     IF s \in {"negative", "NEGATIVE", "LABEL_0"} THEN "Negative"
     ELSE IF s \in {"neutral", "NEUTRAL", "LABEL_1"} THEN "Neutral"
     ELSE "Positive"]

\* ------------------------------------------------------------ input rows
Row(src, ver, cat, sstd, sent, rev, date) ==
  [source |-> src, app_version |-> ver, category |-> cat, sentiment_std |-> sstd,
   sentiment |-> sent, review |-> rev, review_date |-> date]

\* The rows a snapshot file is drawn from.
Rows ==
  { Row("GooglePlay", "1.0", "Payments",  "Negative", "",        "slow",  "2025-01-02"),
    Row("AppStore",   "2.0", " Payments", "",         "LABEL_0", "crash", "2025-01-03"),
    Row("GooglePlay", "1.0", "UI/UX",     "negative", "",        "",      ""),
    Row("GooglePlay", "1.0", "Payments",  "Positive", "",        "good",  "2025-01-02"),
    Row("AppStore",   "",    "UI/UX",     "NEGATIVE", "",        NonStr,  "2025-01-04") }

\* str.strip() on the category strings of Rows.
Strip(s) == IF s = " Payments" THEN "Payments" ELSE s

Categories == {Strip(r.category) : r \in Rows}

\* The categories in the order Python's sorted() gives them (code points).
CatOrder == <<"", "Payments", "UI/UX">>

SeqsUpTo(S, n) == UNION {[1..k -> S] : k \in 0..n}

Absent == [kind |-> "absent", rows |-> <<>>]
Bad == [kind |-> "bad", rows |-> <<>>]
Files == {Absent, Bad} \cup {[kind |-> "ok", rows |-> s] : s \in SeqsUpTo(Rows, MaxRows)}

AbsThresholds == {1, 3}
RelThresholds == {20, 100, 150}

\* ------------------------------------------------------------- functions
\* load_json swallowing the parse error of a malformed file.
load_json_lenient(file) ==
  [raised |-> FALSE, rows |-> IF file.kind = "ok" THEN file.rows ELSE <<>>]

\* load_json without the os.path.exists test.
load_json_strict(file) ==
  IF file.kind = "ok" THEN [raised |-> FALSE, rows |-> file.rows]
  ELSE [raised |-> TRUE, rows |-> <<>>]

\* load_json: [] for a missing path, the parsed list otherwise; json.load or
\* open raises on a file that exists and cannot be read or parsed.
load_json(file) ==
  IF file.kind = "absent" THEN [raised |-> FALSE, rows |-> <<>>]
  ELSE IF file.kind = "ok" THEN [raised |-> FALSE, rows |-> file.rows]
  ELSE [raised |-> TRUE, rows |-> <<>>]

\* canon_sent: SENTI_MAP.get(str(s), s or "")
canon_sent(s) == IF s \in DOMAIN SENTI_MAP THEN SENTI_MAP[s] ELSE s

\* r.get("sentiment_std") or r.get("sentiment")
RawSentiment(r) == IF r.sentiment_std # "" THEN r.sentiment_std ELSE r.sentiment

IsNegative(r) == canon_sent(RawSentiment(r)) = "Negative"

\* str(r.get("category","")).strip()
CatOf(r) == Strip(r.category)

\* neg_counts: the defaultdict as a total map, a key being present iff its
\* count is positive (the only write is by[cat] += 1).
RECURSIVE NegCountsFrom(_, _, _)
NegCountsFrom(rows, i, by) ==
  IF i > Len(rows) THEN by
  ELSE NegCountsFrom(rows, i + 1,
         IF IsNegative(rows[i])
         THEN [by EXCEPT ![CatOf(rows[i])] = @ + 1]
         ELSE by)

\* neg_counts starting at the second row.
neg_counts_from_second(rows) == NegCountsFrom(rows, 2, [c \in Categories |-> 0])

neg_counts(rows) == NegCountsFrom(rows, 1, [c \in Categories |-> 0])

Keys(by) == {c \in DOMAIN by : by[c] > 0}

\* file_hash without the h.update(f.read()): the digest of no bytes for
\* every file that exists.
file_hash_unread(file) == [empty |-> file.kind = "absent", of |-> <<>>]

\* file_hash taking a missing path for an empty file.
file_hash_of_rows(file) == [empty |-> FALSE, of |-> file.rows]

\* file_hash: "" for a missing path, else the SHA-256 of the bytes (taken as
\* injective on the content).
file_hash(file) ==
  IF file.kind = "absent" THEN [empty |-> TRUE, of |-> <<>>]
  ELSE [empty |-> FALSE, of |-> file.rows]

\* Rel with the zero-baseline case left at 0.0.
RelZeroBaseline(a, b) == IF a > 0 THEN <<b - a, a>> ELSE <<0, 1>>

\* rel = (delta / a) if a>0 else (1.0 if b>0 else 0.0)
Rel(a, b) == IF a > 0 THEN <<b - a, a>> ELSE IF b > 0 THEN <<1, 1>> ELSE <<0, 1>>

\* Exceeds with the absolute test written as an equality.
ExceedsOnEquality(a, b, t_abs, t_rel) ==
  LET delta == b - a
      rel   == Rel(a, b)
  IN  delta > 0 /\ (delta = t_abs \/ rel[1] * 100 >= t_rel * rel[2])

\* delta>0 and (delta >= threshold_abs or rel >= threshold_rel)
Exceeds(a, b, t_abs, t_rel) ==
  LET delta == b - a
      rel   == Rel(a, b)
  IN  delta > 0 /\ (delta >= t_abs \/ rel[1] * 100 >= t_rel * rel[2])

\* cats = sorted(set(cur_neg) | set(new_neg))
SortedCats(S) == SelectSeq(CatOrder, LAMBDA c : c \in S)

Increase(c, a, b) == [c |-> c, a |-> a, b |-> b, delta |-> b - a, rel |-> Rel(a, b)]

RECURSIVE IncreasesFrom(_, _, _, _, _, _)
IncreasesFrom(cats, i, cn, nn, t_abs, t_rel) ==
  IF i > Len(cats) THEN <<>>
  ELSE LET c == cats[i]
           rest == IncreasesFrom(cats, i + 1, cn, nn, t_abs, t_rel)
       IN  IF Exceeds(cn[c], nn[c], t_abs, t_rel)
           THEN <<Increase(c, cn[c], nn[c])>> \o rest
           ELSE rest

Increases(cn, nn, t_abs, t_rel) ==
  IncreasesFrom(SortedCats(Keys(cn) \cup Keys(nn)), 1, cn, nn, t_abs, t_rel)

\* AlertOf asking for more than one increase.
AlertOfSeveral(incs) == Len(incs) > 1

\* alert = bool(increases)
AlertOf(incs) == incs # <<>>

\* str(x).lower() of a bool
BoolStr(x) == IF x THEN "true" ELSE "false"

\* c or '_uncategorized_'
DisplayCat(c) == IF c = "" THEN "_uncategorized_" ELSE c

\* examples: bullets of the first max_n non-empty reviews of the Negative rows
\* of the category; .strip() raises AttributeError on a non-string review.
\* An empty bullet list is rendered "_no sample_".
RECURSIVE ExamplesFrom(_, _, _, _, _)
ExamplesFrom(rows, i, category, limit, out) ==
  IF i > Len(rows) THEN [raised |-> FALSE, bullets |-> out]
  ELSE LET r == rows[i] IN
       IF CatOf(r) = category /\ IsNegative(r)
       THEN IF r.review = NonStr THEN [raised |-> TRUE, bullets |-> out]
            ELSE IF r.review # ""
                 THEN IF Len(out) + 1 >= limit
                      THEN [raised |-> FALSE, bullets |-> Append(out, r.review)]
                      ELSE ExamplesFrom(rows, i + 1, category, limit, Append(out, r.review))
                 ELSE ExamplesFrom(rows, i + 1, category, limit, out)
       ELSE ExamplesFrom(rows, i + 1, category, limit, out)

examples(rows, category, limit) == ExamplesFrom(rows, 1, category, limit, <<>>)

\* The sample sections of the summary, one per increase; a section's heading
\* is written before examples() is called, so it survives a raise there.
RECURSIVE SamplesFrom(_, _, _, _)
SamplesFrom(incs, i, rows, out) ==
  IF i > Len(incs) THEN [raised |-> FALSE, chunks |-> out]
  ELSE LET head == [kind |-> "samples_head", cat |-> DisplayCat(incs[i].c)]
           ex   == examples(rows, incs[i].c, max_n)
       IN  IF ex.raised THEN [raised |-> TRUE, chunks |-> Append(out, head)]
           ELSE SamplesFrom(incs, i + 1, rows,
                  out \o <<head, [kind |-> "samples_body", bullets |-> ex.bullets]>>)

\* What the "with open(args.report, 'w')" block writes.
SummaryChunks(upd, t_abs, t_rel, incs, rows) ==
  LET header == [kind |-> "header", updated |-> upd, abs |-> t_abs, relpct |-> t_rel]
  IN  IF incs = <<>>
      THEN [raised |-> FALSE, chunks |-> <<header, [kind |-> "nocats"]>>]
      ELSE SamplesFrom(incs, 1, rows, <<header, [kind |-> "table", rows |-> incs]>>)

\* incr_cats = {c for (c, *_rest) in increases} if increases else None
IncrCats(incs) ==
  IF incs # <<>> THEN [none |-> FALSE, cats |-> {incs[i].c : i \in 1..Len(incs)}]
  ELSE [none |-> TRUE, cats |-> {}]

\* "only_categories and cat not in only_categories"
Skipped(only_categories, cat) ==
  ~only_categories.none /\ only_categories.cats # {} /\ cat \notin only_categories.cats

DetailRow(r) ==
  [kind |-> "row",
   Category |-> IF CatOf(r) = "" THEN "Uncategorized" ELSE CatOf(r),
   Review |-> r.review,
   AppVersion |-> IF r.app_version = "" THEN "Unknown" ELSE r.app_version,
   Date |-> r.review_date]

\* The filter loop of append_details_table; .replace raises on a non-string
\* review of a row that is kept.
RECURSIVE NegRowsFrom(_, _, _, _)
NegRowsFrom(rows, i, only_categories, out) ==
  IF i > Len(rows) THEN [raised |-> FALSE, neg |-> out]
  ELSE LET r == rows[i] IN
       IF ~IsNegative(r) \/ Skipped(only_categories, CatOf(r))
       THEN NegRowsFrom(rows, i + 1, only_categories, out)
       ELSE IF r.review = NonStr THEN [raised |-> TRUE, neg |-> out]
            ELSE NegRowsFrom(rows, i + 1, only_categories, Append(out, DetailRow(r)))

NegRows(rows, only_categories) == NegRowsFrom(rows, 1, only_categories, <<>>)

Min(a, b) == IF a <= b THEN a ELSE b

\* Capped with the test i > max_rows.
CappedOneLate(neg, cap) == SubSeq(neg, 1, Min(Len(neg), cap + 1))

\* for i, row in enumerate(neg): if i >= max_rows: break
Capped(neg, cap) == SubSeq(neg, 1, Min(Len(neg), cap))

\* What the "with open(path, 'a')" block of append_details_table writes.
DetailsChunks(neg, cap) ==
  <<[kind |-> "details_header"]>> \o
    (IF neg = <<>> THEN <<[kind |-> "norows"]>>
     ELSE <<[kind |-> "tablehead"]>> \o Capped(neg, cap))

\* ----------------------------------------------------------------- state
VARIABLES
  curFile,        \* the file at --current
  newFile,        \* the file at --new
  threshold_abs,  \* --threshold-abs
  threshold_rel,  \* --threshold-rel, in percent
  report,         \* the file at --report: [exists, text]
  report0,        \* the file at --report when the run started
  pc,             \* where main() is
  cur, new,       \* the loaded row lists
  updated, cur_neg, new_neg, increases, alert,
  max_rows,       \* the cap append_details_table was called with (0: not called)
  github_output,  \* GITHUB_OUTPUT as read by os.getenv ("unread" before)
  stdout,         \* the lines printed
  gh_out,         \* the lines appended to the GITHUB_OUTPUT file
  exit_code       \* -1 while running

vars == <<curFile, newFile, threshold_abs, threshold_rel, report, report0, pc, cur, new,
          updated, cur_neg, new_neg, increases, alert, max_rows, github_output, stdout,
          gh_out, exit_code>>

inputs == <<curFile, newFile, threshold_abs, threshold_rel, report0>>
locals == <<cur, new, updated, cur_neg, new_neg, increases, alert>>
outputs == <<github_output, stdout, gh_out>>

NoReport == [exists |-> FALSE, text |-> <<>>]

\* A report left by an earlier run (baseline absent, one Negative row new).
OldRows == <<Row("GooglePlay", "1.0", "Payments", "Negative", "", "slow", "2025-01-02")>>
OldIncreases == Increases(neg_counts(<<>>), neg_counts(OldRows), 3, 20)
OldReport ==
  [exists |-> TRUE,
   text |-> SummaryChunks(TRUE, 3, 20, OldIncreases, OldRows).chunks \o
            DetailsChunks(NegRows(OldRows, IncrCats(OldIncreases)).neg, max_rows_default)]

Init ==
  /\ curFile \in Files
  /\ newFile \in Files
  /\ threshold_abs \in AbsThresholds
  /\ threshold_rel \in RelThresholds
  /\ report0 \in {NoReport, OldReport}
  /\ report = report0
  /\ pc = "start"
  /\ cur = <<>> /\ new = <<>>
  /\ updated = FALSE
  /\ cur_neg = neg_counts(<<>>) /\ new_neg = neg_counts(<<>>)
  /\ increases = <<>>
  /\ alert = FALSE
  /\ max_rows = 0
  /\ github_output = "unread"
  /\ stdout = <<>> /\ gh_out = <<>>
  /\ exit_code = -1

\* An uncaught exception: the traceback, exit status 1.
Raise ==
  /\ pc' = "failed"
  /\ exit_code' = 1

\* main, lines 101-119: load both files, hash them, count, compare.
Load ==
  /\ pc = "start"
  /\ LET c == load_json(curFile)
         n == load_json(newFile)
     IN  IF c.raised \/ n.raised
         THEN /\ Raise
              /\ UNCHANGED locals
         ELSE /\ cur' = c.rows
              /\ new' = n.rows
              /\ updated' = (file_hash(curFile) # file_hash(newFile))
              /\ cur_neg' = neg_counts(c.rows)
              /\ new_neg' = neg_counts(n.rows)
              /\ increases' = Increases(neg_counts(c.rows), neg_counts(n.rows),
                                        threshold_abs, threshold_rel)
              /\ alert' = AlertOf(Increases(neg_counts(c.rows), neg_counts(n.rows),
                                            threshold_abs, threshold_rel))
              /\ pc' = "loaded"
              /\ UNCHANGED exit_code
  /\ UNCHANGED <<inputs, report, max_rows, outputs>>

\* OpenReport with the file opened in mode "a": what is there stays.
OpenReportAppending ==
  /\ pc = "loaded"
  /\ report' = [exists |-> TRUE, text |-> report.text]
  /\ pc' = "opened"
  /\ UNCHANGED <<inputs, locals, max_rows, outputs, exit_code>>

\* main, line 122: open(args.report, "w") creates or truncates the file.
OpenReport ==
  /\ pc = "loaded"
  /\ report' = [exists |-> TRUE, text |-> <<>>]
  /\ pc' = "opened"
  /\ UNCHANGED <<inputs, locals, max_rows, outputs, exit_code>>

\* main, lines 123-136: the summary; what was written before a raise is
\* flushed when the with block closes the file.
WriteSummary ==
  /\ pc = "opened"
  /\ LET s == SummaryChunks(updated, threshold_abs, threshold_rel, increases, new)
     IN  /\ report' = [exists |-> TRUE, text |-> report.text \o s.chunks]
         /\ IF s.raised THEN Raise
            ELSE pc' = "summarised" /\ UNCHANGED exit_code
  /\ UNCHANGED <<inputs, locals, max_rows, outputs>>

\* main, lines 139-140: append_details_table(args.report, new, incr_cats).
\* main leaves max_rows at its default; the small cap is the same function
\* called with a cap that the bounded snapshots can reach.
AppendDetails ==
  /\ pc = "summarised"
  /\ \E cap \in {SmallCap, max_rows_default} :
       LET f == NegRows(new, IncrCats(increases))
       IN  /\ max_rows' = cap
           /\ IF f.raised
              THEN Raise /\ UNCHANGED report
              ELSE /\ report' = [exists |-> TRUE,
                                 text |-> report.text \o DetailsChunks(f.neg, cap)]
                   /\ pc' = "detailed"
                   /\ UNCHANGED exit_code
  /\ UNCHANGED <<inputs, locals, outputs>>

SignalLines == <<[key |-> "updated", val |-> BoolStr(updated)],
                 [key |-> "alert", val |-> BoolStr(alert)]>>

\* Emit moved above the call of append_details_table.
EmitBeforeDetails ==
  /\ pc = "summarised"
  /\ \E out \in {"unset", "set"} :
       /\ github_output' = out
       /\ gh_out' = IF out = "set" THEN gh_out \o SignalLines ELSE gh_out
  /\ stdout' = stdout \o SignalLines
  /\ pc' = "done"
  /\ exit_code' = 0
  /\ UNCHANGED <<inputs, locals, report, max_rows>>

\* main, lines 143-149: print the two signals; append them to the file
\* GITHUB_OUTPUT names, when it is set.
Emit ==
  /\ pc = "detailed"
  /\ \E out \in {"unset", "set"} :
       /\ github_output' = out
       /\ gh_out' = IF out = "set" THEN gh_out \o SignalLines ELSE gh_out
  /\ stdout' = stdout \o SignalLines
  /\ pc' = "done"
  /\ exit_code' = 0
  /\ UNCHANGED <<inputs, locals, report, max_rows>>

Next == Load \/ OpenReport \/ WriteSummary \/ AppendDetails \/ Emit

Spec == Init /\ [][Next]_vars

\* ------------------------------------------------------------ properties
\* main got past line 119: the loaded lists, the counts, increases and
\* alert hold this run's values.
Loaded == pc # "start" /\ curFile.kind # "bad" /\ newFile.kind # "bad"

\* The rows of a snapshot; a missing file is the empty snapshot.
Snapshot(file) == IF file.kind = "ok" THEN file.rows ELSE <<>>

ListedCats(incs) == {incs[i].c : i \in 1..Len(incs)}

\* The values a signal was given in a sequence of key=value lines.
Signal(lines, key) == {lines[i].val : i \in {j \in 1..Len(lines) : lines[j].key = key}}

\* The threshold rule as the specification words it.
ClaimRel(prev, curr) ==
  IF prev > 0 THEN <<curr - prev, prev>>
  ELSE IF curr - prev > 0 THEN <<1, 1>> ELSE <<0, 1>>

ClaimExceeding(prev, curr, abs_threshold, rel_threshold) ==
  LET delta == curr - prev
      rel   == ClaimRel(prev, curr)
  IN  /\ delta > 0
      /\ \/ delta >= abs_threshold
         \/ rel[1] * 100 >= rel_threshold * rel[2]

GridCounts == 0..GridMax
GridRel == {0, 20, 50, 100, 150}

\* Count maps holding prev and curr for one category and nothing else.
OneSlice(c, n) == [d \in Categories |-> IF d = c THEN n ELSE 0]

\* The code's rule and the specification's agree on every count and
\* threshold of the grid, with the two zero-baseline cases spelled out.
RuleAgreesOnGrid ==
  /\ \A a \in GridCounts, b \in GridCounts, t \in GridCounts, r \in GridRel :
       Exceeds(a, b, t, r) <=> ClaimExceeding(a, b, t, r)
  /\ \A t \in GridCounts, r \in GridRel :
       /\ ~Exceeds(0, 0, t, r)
       /\ (2 >= t \/ r <= 100) => Exceeds(0, 2, t, r)

\* C1: a category of cur_neg or new_neg is listed in increases if and only
\* if delta = new - cur > 0 and (delta >= abs_threshold or rel >=
\* rel_threshold), rel being delta/cur for cur > 0 and otherwise 1.0 when
\* delta > 0 and 0.0 when not; (0, 0) never exceeds, and (0, 2) exceeds
\* whenever 2 >= abs_threshold or rel_threshold <= 1.0.
C1_ExceedingIffRule ==
  /\ RuleAgreesOnGrid
  /\ Loaded =>
       \A c \in Categories :
         c \in ListedCats(increases) <=>
           /\ c \in Keys(cur_neg) \cup Keys(new_neg)
           /\ ClaimExceeding(cur_neg[c], new_neg[c], threshold_abs, threshold_rel)

\* A zero-baseline category with two new negatives is listed by the relative
\* rule alone, next to a category that is not listed.
C1_Witness ==
  /\ Loaded
  /\ threshold_abs = 3
  /\ \E c \in Categories :
       cur_neg[c] = 0 /\ new_neg[c] = 2 /\ c \in ListedCats(increases)
  /\ \E c \in Keys(cur_neg) : c \notin ListedCats(increases)

\* The scenario of the specification on the code's operators: prev=2,
\* curr=5, abs_threshold=3 gives one increase with delta 3, and an alert.
ScenarioAlerts ==
  \A r \in GridRel :
    LET incs == Increases(OneSlice("Payments", 2), OneSlice("Payments", 5), 3, r)
    IN  Len(incs) = 1 /\ incs[1].delta = 3 /\ AlertOf(incs)

\* C2: in a completed run the emitted alert signal is true if and only if at
\* least one slice is exceeding under the configured thresholds.
C2_AlertIffSomeExceeding ==
  /\ ScenarioAlerts
  /\ pc = "done" =>
       LET some == \E c \in Keys(cur_neg) \cup Keys(new_neg) :
                     ClaimExceeding(cur_neg[c], new_neg[c], threshold_abs, threshold_rel)
       IN  /\ Signal(stdout, "alert") = {BoolStr(some)}
           /\ github_output = "set" => Signal(gh_out, "alert") = {BoolStr(some)}

\* A completed run whose alert is raised by the absolute rule alone.
C2_Witness ==
  /\ pc = "done"
  /\ Signal(stdout, "alert") = {"true"}
  /\ threshold_rel = 150
  /\ \E c \in Categories : new_neg[c] - cur_neg[c] >= threshold_abs

\* The slice key of the specification.
SliceKey(r) == <<r.source, r.app_version, CatOf(r)>>

NegativeAt(rows) == {i \in 1..Len(rows) : IsNegative(rows[i])}

\* C3 as stated: every Negative record of the new snapshot is counted in a
\* slice holding exactly the Negative records that share its key (source,
\* app_version, category).
C3_CountsPerSourceVersionCategory ==
  Loaded =>
    \A i \in NegativeAt(Snapshot(newFile)) :
      new_neg[CatOf(Snapshot(newFile)[i])] =
        Cardinality({j \in NegativeAt(Snapshot(newFile)) :
                       SliceKey(Snapshot(newFile)[j]) = SliceKey(Snapshot(newFile)[i])})

\* C3, amended: the aggregation maps each category (stripped) to the number
\* of records of the snapshot whose canonical sentiment is Negative and that
\* carry that category, whatever their source and app_version; a category
\* absent from one side counts 0 there.
C3_CountsPerCategory ==
  Loaded =>
    /\ \A c \in Categories :
         /\ new_neg[c] = Cardinality({i \in NegativeAt(Snapshot(newFile)) :
                                        CatOf(Snapshot(newFile)[i]) = c})
         /\ cur_neg[c] = Cardinality({i \in NegativeAt(Snapshot(curFile)) :
                                        CatOf(Snapshot(curFile)[i]) = c})
    /\ \A k \in 1..Len(increases) :
         /\ increases[k].a = Cardinality({i \in NegativeAt(Snapshot(curFile)) :
                                            CatOf(Snapshot(curFile)[i]) = increases[k].c})
         /\ increases[k].b = Cardinality({i \in NegativeAt(Snapshot(newFile)) :
                                            CatOf(Snapshot(newFile)[i]) = increases[k].c})

\* Two Negative records of one category that differ in source and in
\* app_version are counted together, against a baseline without the category.
C3_Witness ==
  /\ Loaded
  /\ \E i, j \in NegativeAt(new) :
       /\ new[i].source # new[j].source
       /\ new[i].app_version # new[j].app_version
       /\ CatOf(new[i]) = CatOf(new[j])
       /\ new_neg[CatOf(new[i])] = 2
       /\ \E k \in 1..Len(increases) :
            increases[k].c = CatOf(new[i]) /\ increases[k].a = 0 /\ increases[k].b = 2

\* The bytes of the two files differ, a missing file differing from any
\* file that exists.
FilesDiffer == curFile.kind # newFile.kind \/ curFile.rows # newFile.rows

RowSet(rows) == {rows[i] : i \in 1..Len(rows)}

\* The dataset changed: a record of New is not in the baseline, or the
\* Negative count of some slice differs.
DatasetChanged ==
  \/ RowSet(Snapshot(newFile)) \ RowSet(Snapshot(curFile)) # {}
  \/ \E k \in {SliceKey(r) : r \in Rows} :
       Cardinality({i \in NegativeAt(Snapshot(newFile)) : SliceKey(Snapshot(newFile)[i]) = k})
         # Cardinality({i \in NegativeAt(Snapshot(curFile)) : SliceKey(Snapshot(curFile)[i]) = k})

\* C4 as stated: in a completed run the updated signal is true if and only
\* if the dataset changed.
C4_UpdatedIffDatasetChanged ==
  pc = "done" => Signal(stdout, "updated") = {BoolStr(DatasetChanged)}

\* C4, amended: in a completed run the updated signal is true if and only if
\* the bytes of the baseline file and of the new file differ (a missing file
\* differing from every file that exists); a changed dataset implies
\* updated=true, not the converse; byte-identical files give updated=false
\* and alert=false.
C4_UpdatedIffFilesDiffer ==
  pc = "done" =>
    /\ Signal(stdout, "updated") = {BoolStr(FilesDiffer)}
    /\ DatasetChanged => Signal(stdout, "updated") = {"true"}
    /\ ~FilesDiffer => Signal(stdout, "updated") = {"false"} /\ Signal(stdout, "alert") = {"false"}

\* A completed run over the same records in another order: no record is
\* new, no count differs, and updated is true.
C4_Witness ==
  /\ pc = "done"
  /\ ~DatasetChanged
  /\ Len(Snapshot(curFile)) = 2
  /\ RowSet(Snapshot(curFile)) = RowSet(Snapshot(newFile))
  /\ Signal(stdout, "updated") = {"true"}

CountKind(text, k) == Cardinality({i \in 1..Len(text) : text[i].kind = k})

\* A complete summary: the header, then either the no-increase line or the
\* table with a heading and a body of samples for each of its rows.
IsCompleteSummary(text) ==
  /\ Len(text) >= 2
  /\ text[1].kind = "header"
  /\ \/ Len(text) = 2 /\ text[2].kind = "nocats"
     \/ /\ text[2].kind = "table"
        /\ Len(text) = 2 + 2 * Len(text[2].rows)
        /\ \A k \in 1..Len(text[2].rows) :
             text[1 + 2 * k].kind = "samples_head" /\ text[2 + 2 * k].kind = "samples_body"

\* A complete details section: its heading, then either the no-rows line or
\* the table head followed by rows only.
IsCompleteDetails(text) ==
  /\ Len(text) >= 2
  /\ text[1].kind = "details_header"
  /\ \/ Len(text) = 2 /\ text[2].kind = "norows"
     \/ text[2].kind = "tablehead" /\ \A i \in 3..Len(text) : text[i].kind = "row"

\* A complete report: a complete summary followed by one complete details
\* section.
IsCompleteReport(text) ==
  \E n \in 1..Len(text) :
    /\ IsCompleteSummary(SubSeq(text, 1, n))
    /\ IsCompleteDetails(SubSeq(text, n + 1, Len(text)))

\* C5: a run that crashes never leaves a partially written report at the
\* report path: the file is absent or a complete report (summary plus
\* details section), of an earlier run or of this one.
C5_FailedRunLeavesNoPartialReport ==
  pc = "failed" => ~report.exists \/ IsCompleteReport(report.text)

\* C6: a missing or unreadable new-snapshot file ends the run with a
\* non-zero exit before anything is written to the report path.
C6_MissingNewSnapshotIsFatal ==
  newFile.kind \in {"absent", "bad"} =>
    /\ report = report0
    /\ pc \in {"start", "failed"}
    /\ pc = "failed" => exit_code # 0

\* C7: when the baseline file exists and cannot be parsed, the run ends with
\* a non-zero exit, the report file is as it was before the run, and no
\* signal is emitted.
C7_MalformedBaselineIsFatal ==
  curFile.kind = "bad" =>
    /\ pc \in {"start", "failed"}
    /\ report = report0
    /\ stdout = <<>> /\ gh_out = <<>>
    /\ pc = "failed" => exit_code = 1

\* A run over a malformed baseline and a readable new snapshot with an
\* increase to report has ended, the earlier report still in place.
C7_Witness ==
  /\ curFile.kind = "bad"
  /\ newFile.kind = "ok" /\ NegativeAt(newFile.rows) # {}
  /\ pc = "failed" /\ exit_code = 1
  /\ report0.exists /\ report = report0 /\ IsCompleteReport(report.text)

\* Every Negative row of the file carries a string (or no) review.
ReviewsAreText(file) ==
  \A i \in NegativeAt(Snapshot(file)) : Snapshot(file)[i].review # NonStr

MonotoneOnGrid ==
  \A a \in GridCounts, b \in GridCounts, r \in GridRel :
    \A t1 \in GridCounts, t2 \in GridCounts :
      (t1 <= t2 /\ Exceeds(a, b, t2, r)) => Exceeds(a, b, t1, r)

\* C9: for the counts of the run and its rel_threshold, raising
\* abs_threshold never adds a category to the exceeding set, so alert never
\* goes from false to true; the same on every count of the grid. The run's
\* counts are tried on each threshold and the next one up, inclusion being
\* transitive, and where main has just computed them (they never change
\* afterwards).
C9_AbsThresholdMonotone ==
  /\ MonotoneOnGrid
  /\ pc = "loaded" =>
       \A t \in GridCounts :
         /\ ListedCats(Increases(cur_neg, new_neg, t + 1, threshold_rel))
              \subseteq ListedCats(Increases(cur_neg, new_neg, t, threshold_rel))
         /\ AlertOf(Increases(cur_neg, new_neg, t + 1, threshold_rel))
              => AlertOf(Increases(cur_neg, new_neg, t, threshold_rel))

\* Raising abs_threshold from the run's value by one empties a non-empty
\* exceeding set: alert goes from true to false.
C9_Witness ==
  /\ Loaded
  /\ increases # <<>>
  /\ increases = Increases(cur_neg, new_neg, threshold_abs, threshold_rel)
  /\ Increases(cur_neg, new_neg, threshold_abs + 1, threshold_rel) = <<>>

\* The Negative rows of the new snapshot.
NegativeCount == Cardinality(NegativeAt(new))

\* The Negative rows of the new snapshot that the category filter keeps:
\* those of the exceeding categories, or all of them when none exceeds.
KeptCount ==
  Cardinality({i \in NegativeAt(new) :
                 increases = <<>> \/ CatOf(new[i]) \in ListedCats(increases)})

ExpectedIncreases ==
  Increases(neg_counts(Snapshot(curFile)), neg_counts(Snapshot(newFile)),
            threshold_abs, threshold_rel)

ExpectedText(cap) ==
  SummaryChunks(FilesDiffer, threshold_abs, threshold_rel, ExpectedIncreases,
                Snapshot(newFile)).chunks
    \o DetailsChunks(NegRows(Snapshot(newFile), IncrCats(ExpectedIncreases)).neg, cap)

\* C11: when a run has completed, the report file holds exactly what this
\* run's inputs produce, with one summary and one "Negative Review Details"
\* section, whatever the report path held before the run (nothing, or the
\* report of an earlier completed run).
C11_ReportIsOfLastRunOnly ==
  pc = "done" =>
    /\ report.exists
    /\ report.text = ExpectedText(max_rows)
    /\ CountKind(report.text, "header") = 1
    /\ CountKind(report.text, "details_header") = 1
    /\ IsCompleteReport(report.text)

\* A completed run over a report path that held the report of an earlier
\* run with an increase and a detail row: the new report has neither.
C11_Witness ==
  /\ pc = "done"
  /\ report0 = OldReport
  /\ CountKind(report0.text, "row") = 1 /\ CountKind(report0.text, "table") = 1
  /\ report.text # report0.text
  /\ CountKind(report.text, "row") = 0 /\ CountKind(report.text, "nocats") = 1

\* The positions of the review rows of a report.
RowsAt(text) == {i \in 1..Len(text) : text[i].kind = "row"}

\* C12: in a report with its details section written, when at least one
\* category exceeds the thresholds every detail row is a Negative record of
\* New whose category is in the exceeding set, and when no category exceeds
\* the details table holds no review row.
C12_DetailsOnlyOfExceedingCategories ==
  pc \in {"detailed", "done"} =>
    /\ increases # <<>> =>
         \A i \in RowsAt(report.text) :
           \E j \in NegativeAt(new) :
             /\ report.text[i] = DetailRow(new[j])
             /\ CatOf(new[j]) \in ListedCats(increases)
    /\ increases = <<>> => RowsAt(report.text) = {}

\* C13: in every completed run alert=true implies updated=true, on the
\* standard output and in the GITHUB_OUTPUT file, the baseline file missing
\* or not.
C13_AlertImpliesUpdated ==
  pc = "done" =>
    /\ "true" \in Signal(stdout, "alert") => Signal(stdout, "updated") = {"true"}
    /\ "true" \in Signal(gh_out, "alert") => Signal(gh_out, "updated") = {"true"}
    /\ alert => updated

\* A completed run with an alert over two files that both exist, the
\* baseline holding two rows, updated=true written to the GITHUB_OUTPUT file
\* as well.
C13_Witness ==
  /\ pc = "done"
  /\ curFile.kind = "ok" /\ Len(curFile.rows) = 2
  /\ newFile.kind = "ok"
  /\ github_output = "set"
  /\ Signal(gh_out, "alert") = {"true"} /\ Signal(gh_out, "updated") = {"true"}

\* The same over a missing baseline file.
C13_WitnessMissingBaseline ==
  /\ pc = "done"
  /\ curFile.kind = "absent"
  /\ Signal(stdout, "alert") = {"true"} /\ Signal(stdout, "updated") = {"true"}
  /\ Cardinality(NegativeAt(new)) = 2

\* C14: the updated= and alert= lines, on the standard output and in the
\* GITHUB_OUTPUT file, are there only once the run has written both its
\* summary and its details section to the report path; a run that failed
\* has emitted no signal line, and a completed run has emitted each once.
C14_SignalsOnlyAfterReport ==
  /\ (stdout # <<>> \/ gh_out # <<>>) =>
       /\ pc = "done"
       /\ report.exists
       /\ IsCompleteReport(report.text)
       /\ report.text = ExpectedText(max_rows)
  /\ pc = "failed" => stdout = <<>> /\ gh_out = <<>>
  /\ pc = "done" =>
       /\ stdout = SignalLines
       /\ gh_out = IF github_output = "set" THEN SignalLines ELSE <<>>

\* A completed run with GITHUB_OUTPUT set: both signals in both places,
\* over a report that this run replaced and completed.
C14_Witness ==
  /\ pc = "done"
  /\ github_output = "set"
  /\ Len(stdout) = 2 /\ Len(gh_out) = 2
  /\ report0.exists /\ report # report0
  /\ IsCompleteReport(report.text)

\* A run that raised after writing its summary: the report has no details
\* section and no signal line was emitted.
C14_WitnessFailedRun ==
  /\ pc = "failed"
  /\ report.exists /\ IsCompleteSummary(report.text)
  /\ CountKind(report.text, "details_header") = 0
  /\ stdout = <<>> /\ gh_out = <<>>

====
